---- MODULE Spec2Model ----
(***************************************************************************)
(* Model of rustex: the Job state machine (src/jobs.rs), the Runner's      *)
(* submission and drain loop (src/runner.rs) and the log parser            *)
(* (src/outparse/src/lib.rs, report.rs).                                   *)
(*                                                                         *)
(* Jobs are identified by their submission index.  The external engine     *)
(* processes are the environment: a running process may exit at any time   *)
(* with any exit status and any output, a spawn or a non-blocking wait may *)
(* fail, and the interrupt handler may set the abort flag at any time.     *)
(***************************************************************************)
EXTENDS Integers, Sequences, FiniteSets, TLC

\* ---------------------------------------------------------------- bounds
MaxJobs == 2
MaxErrors == 1
MaxMissing == 1
MaxLines == 2

\* The concurrency limit the specification gives the Runner.  Config
\* (src/config.rs) declares no such option; 1 is the specification's default.
max_concurrency == 1

Range(s) == {s[i] : i \in DOMAIN s}

\* ------------------------------------------------------------ JobStatus
JobStatus == {"Pending", "Active", "Success", "Failed", "NeedsRebuild"}
Terminal == {"Success", "Failed"}

\* The reports Job::check_build_log can be handed by parse_log, as far as it
\* reads them: the counters errors and missing_references.  parse_log as
\* given in outparse/src/lib.rs returns BuildReport::new() without running the
\* parser, and that BuildReport declares no missing_references; the Job is
\* modelled against every report, the all-zero one of BuildReport::new()
\* included.
JobReports == [errors : 0..MaxErrors, missing_references : 0..MaxMissing]

BuildReport_new == [errors |-> 0, missing_references |-> 0]

\* Option<T> is a sequence of length at most one.
None == <<>>
Some(x) == <<x>>

\* ------------------------------------------------------------------ Job
Job_new ==
    [status |-> "Pending", child |-> "None", run_count |-> 0, report |-> None]

\* The outcome of one call on a job: the job afterwards, the value returned,
\* whether the call panicked, whether the finished child was consumed
\* (try_wait returned its exit status), and what became of a spawn.
Outcome(job, ret, panic, reaped, spawned) ==
    [job |-> job, ret |-> ret, panic |-> panic, reaped |-> reaped,
     spawned |-> spawned]

\* Job::spawn: on success the job holds the new child, is Active and its
\* run counter (a u8) is incremented; on failure nothing is assigned.
spawn(job, spawn_ok) ==
    IF spawn_ok
    THEN [ok |-> TRUE,
          job |-> [job EXCEPT !.child = "Some", !.status = "Active",
                              !.run_count = (@ + 1) % 256]]
    ELSE [ok |-> FALSE, job |-> job]

SpawnResult(ok) == IF ok THEN "ok" ELSE "failed"

check_build_log_ignore_exit(job, exit_code_success, report, spawn_ok) ==
    LET j1 == [job EXCEPT !.report = Some(report)] IN
    IF report.errors > 0
    THEN Outcome([j1 EXCEPT !.status = "Failed"], TRUE, FALSE, TRUE, "none")
    ELSE IF report.missing_references > 0 /\ j1.run_count = 1
    THEN LET s == spawn(j1, spawn_ok) IN
         Outcome(s.job, FALSE, ~s.ok, TRUE, SpawnResult(s.ok))
    ELSE Outcome([j1 EXCEPT !.status = "Success"], TRUE, FALSE, TRUE, "none")

check_build_log_rebuild_clean(job, exit_code_success, report, spawn_ok) ==
    LET j1 == [job EXCEPT !.report = Some(report)] IN
    IF report.errors > 0 \/ ~exit_code_success
    THEN Outcome([j1 EXCEPT !.status = "Failed"], TRUE, FALSE, TRUE, "none")
    ELSE IF report.missing_references >= 0 /\ j1.run_count = 1
    THEN LET s == spawn(j1, spawn_ok) IN
         Outcome(s.job, FALSE, ~s.ok, TRUE, SpawnResult(s.ok))
    ELSE Outcome([j1 EXCEPT !.status = "Success"], TRUE, FALSE, TRUE, "none")

check_build_log_always_rebuild(job, exit_code_success, report, spawn_ok) ==
    LET j1 == [job EXCEPT !.report = Some(report)] IN
    IF report.errors > 0 \/ ~exit_code_success
    THEN Outcome([j1 EXCEPT !.status = "Failed"], TRUE, FALSE, TRUE, "none")
    ELSE IF report.missing_references > 0
    THEN LET s == spawn(j1, spawn_ok) IN
         Outcome(s.job, FALSE, ~s.ok, TRUE, SpawnResult(s.ok))
    ELSE Outcome([j1 EXCEPT !.status = "Success"], TRUE, FALSE, TRUE, "none")

check_build_log_needs_rebuild(job, exit_code_success, report, spawn_ok) ==
    LET j1 == [job EXCEPT !.report = Some(report)] IN
    IF report.errors > 0 \/ ~exit_code_success
    THEN Outcome([j1 EXCEPT !.status = "Failed"], TRUE, FALSE, TRUE, "none")
    ELSE IF report.missing_references > 0 /\ j1.run_count = 1
    THEN Outcome([j1 EXCEPT !.status = "NeedsRebuild"], FALSE, FALSE, TRUE,
                 "none")
    ELSE Outcome([j1 EXCEPT !.status = "Success"], TRUE, FALSE, TRUE, "none")

\* Job::check_build_log: store the parsed report; Failed on errors or an
\* unsuccessful exit; one re-spawn (which must succeed: expect) when the
\* first run left unresolved references; Success otherwise.
check_build_log(job, exit_code_success, report, spawn_ok) ==
    LET j1 == [job EXCEPT !.report = Some(report)] IN
    IF report.errors > 0 \/ ~exit_code_success
    THEN Outcome([j1 EXCEPT !.status = "Failed"], TRUE, FALSE, TRUE, "none")
    ELSE IF report.missing_references > 0 /\ j1.run_count = 1
    THEN LET s == spawn(j1, spawn_ok) IN
         Outcome(s.job, FALSE, ~s.ok, TRUE, SpawnResult(s.ok))
    ELSE Outcome([j1 EXCEPT !.status = "Success"], TRUE, FALSE, TRUE, "none")

\* The results of Child::try_wait.
TryWait == {"OkSome", "OkNone", "Err"}

poll_active_done_while_running(job, try_wait, exit_code_success, report, spawn_ok) ==
    IF job.child = "None"
    THEN Outcome(job, FALSE, FALSE, FALSE, "none")
    ELSE CASE try_wait = "OkSome" ->
                check_build_log(job, exit_code_success, report, spawn_ok)
           [] try_wait = "OkNone" ->
                Outcome(job, TRUE, FALSE, FALSE, "none")
           [] try_wait = "Err" ->
                Outcome([job EXCEPT !.status = "Failed"], FALSE, FALSE, FALSE,
                        "none")

\* Job::poll_active.
poll_active(job, try_wait, exit_code_success, report, spawn_ok) ==
    IF job.child = "None"
    THEN Outcome(job, FALSE, FALSE, FALSE, "none")
    ELSE CASE try_wait = "OkSome" ->
                check_build_log(job, exit_code_success, report, spawn_ok)
           [] try_wait = "OkNone" ->
                Outcome(job, FALSE, FALSE, FALSE, "none")
           [] try_wait = "Err" ->
                Outcome([job EXCEPT !.status = "Failed"], FALSE, FALSE, FALSE,
                        "none")

\* Job::poll_pending.
poll_pending(job, spawn_ok) ==
    LET s == spawn(job, spawn_ok) IN
    Outcome(IF s.ok THEN s.job ELSE [job EXCEPT !.status = "Failed"],
            FALSE, FALSE, FALSE, SpawnResult(s.ok))

poll_retry_failed(job, try_wait, exit_code_success, report, spawn_ok) ==
    CASE job.status \in {"Pending", "Failed"} -> poll_pending(job, spawn_ok)
      [] job.status = "Active" ->
            poll_active(job, try_wait, exit_code_success, report, spawn_ok)
      [] OTHER -> Outcome(job, FALSE, FALSE, FALSE, "none")

\* Job::poll.
poll(job, try_wait, exit_code_success, report, spawn_ok) ==
    CASE job.status = "Pending" -> poll_pending(job, spawn_ok)
      [] job.status = "Active" ->
            poll_active(job, try_wait, exit_code_success, report, spawn_ok)
      [] OTHER -> Outcome(job, FALSE, FALSE, FALSE, "none")

\* Job::kill: a kill request is sent when the job holds a child.
Job_kill(job) == job.child = "Some"

\* ------------------------------------------------------------- outparse
\* A log line is the sequence of its lexemes: the words, numbers and
\* punctuation marks the four patterns of outparse/src/lib.rs tell apart,
\* with the free text that "(.*)" captures as further lexemes.  The line
\* terminator read_line keeps is left out: no pattern matches it.
At(t, i) == IF i \in DOMAIN t THEN t[i] ELSE ""

From(t, i) == SubSeq(t, i, Len(t))

\* "(?:La|pdf)TeX|Package|Class"
Types == {"LaTeX", "pdfTeX", "Package", "Class"}

\* The lexemes of the model that "\w+" matches.
Words == Types \cup {"Warning", "warning", "Info", "info", "Error", "error",
                     "babel", "article", "font", "badness", "too", "wide",
                     "text"}

\* "[\\]?\w+"
ExtraWords == Words \cup {"\\pdfsetmatrix"}

\* "\d+" and "\d+(?:\.\d+)?pt"
Digits == {"19", "397", "1234"}
Sizes == {"54.95697pt"}

\* The empty HashMap and HashMap::insert.
HashMap_new == [k \in {} |-> <<>>]
insert(map, key, value) == (key :> value) @@ map
contains_key(map, key) == key \in DOMAIN map

\* "(?: \(([\\]?\w+)\))?: (.*)" at the lexemes after position i: whether it
\* matches, the extra it captures and where the message starts.
GenericTail(t, i) ==
    IF At(t, i + 1) = ":"
    THEN [ok |-> TRUE, extra |-> None, from |-> i + 2]
    ELSE IF /\ At(t, i + 1) = "("
            /\ At(t, i + 2) \in ExtraWords
            /\ At(t, i + 3) = ")"
            /\ At(t, i + 4) = ":"
         THEN [ok |-> TRUE, extra |-> Some(t[i + 2]), from |-> i + 5]
         ELSE [ok |-> FALSE, extra |-> None, from |-> 0]

\* The shared pattern of WARNING, INFO and the first alternative of ERROR,
\* matched after the first k lexemes with the keyword spellings kw:
\* "<type>(?: (\w+))? <kw>(?: \(<extra>\))?: (.*)".  The captures are
\* group 0 (full) and groups 1 to 4 (type, name, extra, message).
Generic(t, k, kw) ==
    LET named == GenericTail(t, k + 3)
        plain == GenericTail(t, k + 2)
    IN  IF At(t, k + 1) \notin Types THEN None
        ELSE IF At(t, k + 2) \in Words /\ At(t, k + 3) \in kw /\ named.ok
        THEN Some([full |-> t, type |-> t[k + 1], name |-> Some(t[k + 2]),
                   extra |-> named.extra, message |-> From(t, named.from),
                   bare |-> None])
        ELSE IF At(t, k + 2) \in kw /\ plain.ok
        THEN Some([full |-> t, type |-> t[k + 1], name |-> None,
                   extra |-> plain.extra, message |-> From(t, plain.from),
                   bare |-> None])
        ELSE None

INFO(t) == Generic(t, 0, {"Info", "info"})

WARNING(t) == Generic(t, 0, {"Warning", "warning"})

\* ERROR: the typed alternative after "! ", else "! (.*)" whose capture is
\* group 5 (bare).
ERROR(t) ==
    IF At(t, 1) # "!" THEN None
    ELSE IF Generic(t, 1, {"Error", "error"}) # None
    THEN Generic(t, 1, {"Error", "error"})
    ELSE IF Len(t) >= 2
    THEN Some([full |-> t, type |-> "", name |-> None, extra |-> None,
               message |-> <<>>, bare |-> Some(From(t, 2))])
    ELSE None

\* BADBOX.  The captures are group 0 (full, the matched prefix of the
\* line), 1 (Over or Under), 2 (h or v), 3 (badness), 4 (size), 5 and 6
\* (start and end line), 7 (single line).  Either amount is accepted after
\* either of Over and Under.
BADBOX(t) ==
    LET amount == IF At(t, 4) = "badness" /\ At(t, 5) \in Digits
                  THEN [ok |-> TRUE, g3 |-> Some(t[5]), g4 |-> None, next |-> 6]
                  ELSE IF At(t, 4) \in Sizes /\ At(t, 5) = "too"
                          /\ At(t, 6) \in Words
                  THEN [ok |-> TRUE, g3 |-> None, g4 |-> Some(t[4]), next |-> 7]
                  ELSE [ok |-> FALSE, g3 |-> None, g4 |-> None, next |-> 0]
        n == amount.next
        where == IF At(t, n + 1) = "has occurred while \\output is active []"
                 THEN [ok |-> TRUE, g5 |-> None, g6 |-> None, g7 |-> None,
                       end |-> n + 1]
                 ELSE IF At(t, n + 1) \notin
                            {"in paragraph", "in alignment", "detected"}
                 THEN [ok |-> FALSE, g5 |-> None, g6 |-> None, g7 |-> None,
                       end |-> 0]
                 ELSE IF /\ At(t, n + 2) = "at lines"
                         /\ At(t, n + 3) \in Digits
                         /\ At(t, n + 4) = "--"
                         /\ At(t, n + 5) \in Digits
                 THEN [ok |-> TRUE, g5 |-> Some(t[n + 3]),
                       g6 |-> Some(t[n + 5]), g7 |-> None, end |-> n + 5]
                 ELSE IF At(t, n + 2) = "at line" /\ At(t, n + 3) \in Digits
                 THEN [ok |-> TRUE, g5 |-> None, g6 |-> None,
                       g7 |-> Some(t[n + 3]), end |-> n + 3]
                 ELSE [ok |-> FALSE, g5 |-> None, g6 |-> None, g7 |-> None,
                       end |-> 0]
    IN  IF /\ At(t, 1) \in {"Overfull", "Underfull"}
           /\ At(t, 2) \in {"\\hbox", "\\vbox"}
           /\ At(t, 3) = "("
           /\ amount.ok
           /\ At(t, n) = ")"
           /\ where.ok
        THEN Some([full |-> SubSeq(t, 1, where.end),
                   box_type |-> IF t[1] = "Overfull" THEN "Over" ELSE "Under",
                   direction |-> IF t[2] = "\\hbox" THEN "h" ELSE "v",
                   g3 |-> amount.g3, g4 |-> amount.g4,
                   g5 |-> where.g5, g6 |-> where.g6, g7 |-> where.g7])
        ELSE None

\* MessageInfo, tagged with the variant of Message that holds it.
Message(kind, full, details) ==
    [kind |-> kind, full |-> full, details |-> details, context_lines |-> <<>>]

\* BuildReport::new of outparse/src/report.rs, the report the parser fills.
LogReport_new ==
    [errors |-> 0, warnings |-> 0, badboxes |-> 0, info |-> 0,
     messages |-> <<>>]

\* The result of handling one line: the report afterwards, and whether the
\* handling panicked (an unwrap of a group that did not take part).
Parsed(report, panic) == [report |-> report, panic |-> panic]

\* LogParser::process_generic: the details of a typed message.
process_generic(m) ==
    LET key == CASE m.type = "Package" -> "package"
                 [] m.type = "Class" -> "class"
                 [] OTHER -> "component"
        d1 == insert(HashMap_new, "type", m.type)
        d2 == IF m.name # None THEN insert(d1, key, m.name[1]) ELSE d1
        d3 == IF m.extra # None THEN insert(d2, "extra", m.extra[1]) ELSE d2
    IN  insert(d3, "message", m.message)

process_info(report, m) ==
    Parsed([report EXCEPT
              !.info = @ + 1,
              !.messages = Append(@, Message("Info", m.full, process_generic(m)))],
           FALSE)

process_badbox_with_component(report, m) ==
    LET d1 == insert(insert(HashMap_new, "type", m.box_type),
                     "component", m.box_type)
        d2 == insert(d1, "direction", m.direction)
        by == IF m.box_type = "Over" THEN m.g4 ELSE m.g3
        d3 == insert(d2, "by", by[1])
        d4 == IF m.g7 # None THEN insert(d3, "line", m.g7[1])
              ELSE IF m.g5 # None
              THEN insert(insert(d3, "start_line", m.g5[1]),
                          "end_line", m.g6[1])
              ELSE d3
    IN  IF by = None
        THEN Parsed(report, TRUE)
        ELSE Parsed([report EXCEPT
                       !.badboxes = @ + 1,
                       !.messages = Append(@, Message("Badbox", m.full, d4))],
                    FALSE)

\* LogParser::process_badbox.
process_badbox(report, m) ==
    LET d1 == insert(HashMap_new, "type", m.box_type)
        d2 == insert(d1, "direction", m.direction)
        by == IF m.box_type = "Over" THEN m.g4 ELSE m.g3
        d3 == insert(d2, "by", by[1])
        d4 == IF m.g7 # None THEN insert(d3, "line", m.g7[1])
              ELSE IF m.g5 # None
              THEN insert(insert(d3, "start_line", m.g5[1]),
                          "end_line", m.g6[1])
              ELSE d3
    IN  IF by = None
        THEN Parsed(report, TRUE)
        ELSE Parsed([report EXCEPT
                       !.badboxes = @ + 1,
                       !.messages = Append(@, Message("Badbox", m.full, d4))],
                    FALSE)

process_warning_uncounted(report, m) ==
    Parsed([report EXCEPT
              !.messages = Append(@, Message("Warning", m.full,
                                             process_generic(m)))],
           FALSE)

process_warning(report, m) ==
    Parsed([report EXCEPT
              !.warnings = @ + 1,
              !.messages = Append(@, Message("Warning", m.full,
                                             process_generic(m)))],
           FALSE)

\* LogParser::process_error: the bare form has the message as its only
\* detail.
process_error(report, m) ==
    LET details == IF m.bare # None
                   THEN insert(HashMap_new, "message", m.bare[1])
                   ELSE process_generic(m)
    IN  Parsed([report EXCEPT
                  !.errors = @ + 1,
                  !.messages = Append(@, Message("Error", m.full, details))],
               FALSE)

parse_line_unmatched_as_error(report, line) ==
    IF INFO(line) # None THEN process_info(report, INFO(line)[1])
    ELSE IF BADBOX(line) # None THEN process_badbox(report, BADBOX(line)[1])
    ELSE IF WARNING(line) # None THEN process_warning(report, WARNING(line)[1])
    ELSE IF ERROR(line) # None THEN process_error(report, ERROR(line)[1])
    ELSE process_error(report, [full |-> line, bare |-> Some(line)])

\* LogParser::parse_line: the first pattern that matches, in the order
\* INFO, BADBOX, WARNING, ERROR; a line that matches none changes nothing.
parse_line(report, line) ==
    IF INFO(line) # None THEN process_info(report, INFO(line)[1])
    ELSE IF BADBOX(line) # None THEN process_badbox(report, BADBOX(line)[1])
    ELSE IF WARNING(line) # None THEN process_warning(report, WARNING(line)[1])
    ELSE IF ERROR(line) # None THEN process_error(report, ERROR(line)[1])
    ELSE Parsed(report, FALSE)

\* MessageInfo::get_component_name and Message::get_component_name.
get_component_name(msg) ==
    IF msg.kind = "Badbox" THEN None
    ELSE IF contains_key(msg.details, "component")
    THEN Some(msg.details["component"])
    ELSE IF contains_key(msg.details, "package")
    THEN Some(msg.details["package"])
    ELSE IF contains_key(msg.details, "class")
    THEN Some(msg.details["class"])
    ELSE None

\* Message::extend_message: the text is pushed onto the message detail; a
\* Badbox is left alone.
extend_message(msg, text) ==
    IF msg.kind = "Badbox" THEN msg
    ELSE IF contains_key(msg.details, "message")
    THEN [msg EXCEPT !.details = insert(@, "message", @["message"] \o text)]
    ELSE [msg EXCEPT !.details = insert(@, "message", text)]

\* Message::add_context.
add_context(msg, line) == [msg EXCEPT !.context_lines = Append(@, line)]

\* line.starts_with("(<cmpt>) ")
starts_with(line, cmpt) ==
    At(line, 1) = "(" /\ At(line, 2) = cmpt /\ At(line, 3) = ")"

\* line.trim_start_matches("(<cmpt>) ").trim_start(): every leading
\* repetition of the prefix is removed.
RECURSIVE trim_start_matches(_, _)
trim_start_matches(line, cmpt) ==
    IF starts_with(line, cmpt)
    THEN trim_start_matches(From(line, 4), cmpt)
    ELSE line

\* LogParser::new; the reader is the number of lines read so far, and
\* last_message, a reference to a message of the report, is its index.
LogParser_new(context_lines) ==
    [report |-> LogReport_new, reader |-> 0, last_message |-> None,
     lineno |-> 0, collect_remaining |-> None,
     context_lines |-> context_lines]

\* A line read_line fails on (it is not UTF-8): the line is consumed and
\* next_line returns None.
InvalidLine == <<"\\xff">>

\* LogParser::next_line: Some(line), Some of the empty line at the end of
\* the input (read_line returns Ok(0)), or None.
next_line(log, reader) ==
    IF reader >= Len(log) THEN Some(<<>>)
    ELSE IF log[reader + 1] = InvalidLine THEN None
    ELSE Some(log[reader + 1])

\* One iteration of the loop of LogParser::parse on the line read: a
\* continuation of last_message, else a context line while
\* collect_remaining is set, else parse_line.  The decrement of a
\* collect_remaining of 0 panics with overflow checks and wraps without.
parse_iteration(p, line, overflow_checks) ==
    LET last == p.report.messages[p.last_message[1]]
        cmpt == get_component_name(last)
        i == p.collect_remaining[1]
        left == IF i = 0 THEN 2 ^ 64 - 1 ELSE i - 1
        withContext ==
            IF p.last_message # None
            THEN [p.report EXCEPT !.messages[p.last_message[1]] =
                                      add_context(@, line)]
            ELSE p.report
        r == parse_line(p.report, line)
    IN  IF /\ p.last_message # None
           /\ cmpt # None
           /\ starts_with(line, cmpt[1])
        THEN [parser |-> [p EXCEPT !.report.messages[p.last_message[1]] =
                              extend_message(@, trim_start_matches(line, cmpt[1]))],
              panic |-> FALSE]
        ELSE IF p.collect_remaining # None
        THEN IF i = 0 /\ overflow_checks
             THEN [parser |-> p, panic |-> TRUE]
             ELSE [parser |-> [p EXCEPT !.report = withContext,
                                        !.collect_remaining =
                                            IF left = 0 THEN None ELSE Some(left)],
                   panic |-> FALSE]
        ELSE [parser |-> [p EXCEPT !.report = r.report], panic |-> r.panic]

\* The context budget parse_log gives its parser.
ContextLines == 2

\* The lines the parsed logs are built from: every shape of the four
\* patterns, a continuation line, plain text, the empty line and a line
\* that is not UTF-8.
Lines ==
    { <<"LaTeX", "Warning", ":", "text">>,
      <<"LaTeX", "font", "Warning", ":", "text">>,
      <<"Package", "babel", "Warning", ":", "text">>,
      <<"LaTeX", "Info", ":", "text">>,
      <<"Class", "article", "Info", "(", "font", ")", ":", "text">>,
      <<"!", "LaTeX", "Error", ":", "text">>,
      <<"!", "Package", "babel", "Error", ":", "text">>,
      <<"!", "pdfTeX", "error", "(", "\\pdfsetmatrix", ")", ":", "text">>,
      <<"!", "text">>,
      <<"Underfull", "\\vbox", "(", "badness", "1234", ")",
        "has occurred while \\output is active []">>,
      <<"Underfull", "\\hbox", "(", "badness", "1234", ")",
        "detected", "at line", "19">>,
      <<"Overfull", "\\hbox", "(", "54.95697pt", "too", "wide", ")",
        "in paragraph", "at lines", "397", "--", "397">>,
      <<"Overfull", "\\vbox", "(", "badness", "1234", ")",
        "has occurred while \\output is active []">>,
      <<"(", "babel", ")", "text">>,
      <<"text">>,
      <<>>,
      InvalidLine }

Logs == UNION {[1..n -> Lines] : n \in 0..MaxLines}

\* --------------------------------------------------------------- Runner
VARIABLES
    pc,            \* where Runner::run is: start, submitting, draining, or
                   \* ended: done (Ok(report)), error (Err), exited (exit(1)),
                   \* panicked
    paths,         \* the paths given to run: TRUE when the path exists
    clean_build,   \* Config::clean_build
    abort,         \* Runner::abort, the flag the interrupt handler sets
    jobs,          \* the Job created for each submitted path, by job id
    active,        \* Runner::active, a queue of job ids
    completed,     \* Runner::completed, a list of job ids
    procs,         \* the engine process of each job's latest spawn
    killed,        \* the jobs whose child was sent a kill request
    cleaned,       \* the jobs Job::cleanup was run on
    runnerReport,  \* the RunnerReport of process_submissions, once built
    launched       \* the job ids in the order of their first Job::spawn call

VARIABLES
    log,           \* the lines of the log a LogParser reads
    parser,        \* the LogParser
    parser_pc,     \* where LogParser::parse is: parse (in its loop) or panicked
    parsed         \* the BuildReport parse_log returned for the log, if called

runnerVars == <<pc, paths, clean_build, abort, jobs, active, completed, procs,
                killed, cleaned, runnerReport, launched>>

parserVars == <<log, parser, parser_pc, parsed>>

vars == <<runnerVars, parserVars>>

PathLists == UNION {[1..n -> BOOLEAN] : n \in 0..MaxJobs}

\* The engine process of a job's latest spawn: not spawned yet, running,
\* exited, or reaped (try_wait has returned its exit status and its output
\* has been read); ok is the exit status try_wait returned for the job's
\* latest finished run (TRUE before there is one).
NoProc == [state |-> "none", ok |-> TRUE]

JobIds == DOMAIN jobs

\* Runner::new, before run is called with some paths and some Config.
Init ==
    /\ pc = "start"
    /\ paths \in PathLists
    /\ clean_build \in BOOLEAN
    /\ abort = FALSE
    /\ jobs = <<>>
    /\ active = <<>>
    /\ completed = <<>>
    /\ procs = <<>>
    /\ killed = {}
    /\ cleaned = {}
    /\ runnerReport = None
    /\ launched = <<>>
    /\ log = <<>>
    /\ parser = LogParser_new(ContextLines)
    /\ parser_pc = "parse"
    /\ parsed = None

AfterSubmit(n) == IF n = Len(paths) THEN "draining" ELSE "submitting"

\* Runner::run, installing the interrupt handler (which may fail).
SetHandler ==
    /\ pc = "start"
    /\ \E ok \in BOOLEAN : pc' = IF ok THEN AfterSubmit(0) ELSE "error"
    /\ UNCHANGED <<paths, clean_build, abort, jobs, active, completed, procs,
                   killed, cleaned, runnerReport, launched>>
    /\ UNCHANGED parserVars

Signal_tears_down ==
    /\ pc \in {"submitting", "draining"}
    /\ abort' = TRUE
    /\ active' = <<>>
    /\ UNCHANGED <<pc, paths, clean_build, jobs, completed, procs,
                   killed, cleaned, runnerReport, launched>>
    /\ UNCHANGED parserVars

\* The interrupt handler: stores true in the abort flag.
Signal ==
    /\ pc \in {"submitting", "draining"}
    /\ abort' = TRUE
    /\ UNCHANGED <<pc, paths, clean_build, jobs, active, completed, procs,
                   killed, cleaned, runnerReport, launched>>
    /\ UNCHANGED parserVars

submit_front(queue, id) == <<id>> \o queue

\* Runner::submit, enqueueing the new job.
submit(queue, id) == Append(queue, id)

\* Runner::run, submitting the next path; a path that does not exist makes
\* submit, and with it run, return the error.
Submit ==
    /\ pc = "submitting"
    /\ LET id == Len(jobs) + 1 IN
       IF paths[id]
       THEN /\ jobs' = Append(jobs, Job_new)
            /\ procs' = Append(procs, NoProc)
            /\ active' = submit(active, id)
            /\ pc' = AfterSubmit(id)
       ELSE /\ pc' = "error"
            /\ UNCHANGED <<jobs, procs, active>>
    /\ UNCHANGED <<paths, clean_build, abort, completed, killed, cleaned,
                   runnerReport, launched>>
    /\ UNCHANGED parserVars

\* The engine process of job j exits.
ProcExit(j) ==
    /\ procs[j].state = "running"
    /\ procs' = [procs EXCEPT ![j].state = "exited"]
    /\ UNCHANGED <<pc, paths, clean_build, abort, jobs, active, completed,
                   killed, cleaned, runnerReport, launched>>
    /\ UNCHANGED parserVars

PollInput(try_wait, exit_code_success, report, spawn_ok) ==
    [try_wait |-> try_wait, exit_code_success |-> exit_code_success,
     report |-> report, spawn_ok |-> spawn_ok]

\* What the environment can answer to a poll of job j.  A Pending job is
\* spawned, which succeeds or fails.  An Active job's try_wait fails, or
\* finds the child still running, or returns the exit status of the exited
\* child, whose output then parses to some report, and a re-spawn succeeds
\* or fails.  The answers a call does not read are left at a default.
PollInputs(j) ==
    CASE jobs[j].status = "Pending" ->
            {PollInput("OkNone", TRUE, BuildReport_new, ok) : ok \in BOOLEAN}
      [] jobs[j].status = "Active" /\ procs[j].state = "exited" ->
            {PollInput("Err", TRUE, BuildReport_new, TRUE)} \cup
            {PollInput("OkSome", e, r, ok) :
                e \in BOOLEAN, r \in JobReports, ok \in BOOLEAN}
      [] jobs[j].status = "Active" /\ procs[j].state # "exited" ->
            {PollInput("OkNone", TRUE, BuildReport_new, TRUE),
             PollInput("Err", TRUE, BuildReport_new, TRUE)}
      [] OTHER -> {PollInput("OkNone", TRUE, BuildReport_new, TRUE)}

KillTargets_active_only(id, queue) == Range(queue)

\* The jobs Job::kill is called on once the abort flag is seen: the job
\* just popped and, in Runner::kill, every job still queued.
KillTargets(id, queue) == {id} \cup Range(queue)

\* One iteration of the loop of Runner::process_submissions.
DrainStep ==
    /\ pc = "draining"
    /\ active # <<>>
    /\ LET id == Head(active)
           rest == Tail(active)
       IN
       IF abort
       THEN \* job.kill(); self.kill(), which ends in exit(1)
            /\ killed' = killed \cup
                         {k \in KillTargets(id, rest) : Job_kill(jobs[k])}
            /\ active' = rest
            /\ pc' = "exited"
            /\ UNCHANGED <<jobs, procs, completed, launched>>
       ELSE \* job.poll(), with what the environment answers
            \E in \in PollInputs(id) :
            LET r == poll(jobs[id], in.try_wait, in.exit_code_success,
                          in.report, in.spawn_ok)
            IN
            /\ jobs' = [jobs EXCEPT ![id] = r.job]
            /\ procs' = [procs EXCEPT ![id] =
                            [state |-> IF r.spawned = "ok" THEN "running"
                                       ELSE IF r.reaped THEN "reaped"
                                       ELSE @.state,
                             ok |-> IF r.reaped THEN in.exit_code_success
                                    ELSE @.ok]]
            /\ launched' = IF jobs[id].status = "Pending"
                           THEN Append(launched, id)
                           ELSE launched
            /\ IF r.panic
               THEN /\ pc' = "panicked"
                    /\ active' = rest
                    /\ UNCHANGED completed
               ELSE /\ pc' = pc
                    /\ IF r.ret
                       THEN /\ completed' = Append(completed, id)
                            /\ active' = rest
                       ELSE /\ active' = Append(rest, id)
                            /\ UNCHANGED completed
            /\ UNCHANGED killed
    /\ UNCHANGED <<paths, clean_build, abort, cleaned, runnerReport>>
    /\ UNCHANGED parserVars

CountStatus(list, st) ==
    Cardinality({i \in DOMAIN list : jobs[list[i]].status = st})

\* Runner::build_report over the completed list.
build_report ==
    IF \E i \in DOMAIN completed : jobs[completed[i]].status \notin Terminal
    THEN [ok |-> FALSE, report |-> None]
    ELSE [ok |-> TRUE,
          report |-> Some([num_files |-> Len(completed),
                           success |-> CountStatus(completed, "Success"),
                           fail |-> CountStatus(completed, "Failed"),
                           build_reports |-> <<>>])]

do_cleanup_always(n) ==
    {completed[i] : i \in 1..(IF n < Len(completed) THEN n + 1 ELSE n)}

\* Runner::do_cleanup: the jobs Job::cleanup is called on, when the first n
\* calls succeed (and the next one, if there is one, fails and ends it).
do_cleanup(n) ==
    IF ~clean_build THEN {}
    ELSE {completed[i] : i \in 1..(IF n < Len(completed) THEN n + 1 ELSE n)}

\* The end of process_submissions, once the queue is empty: do_cleanup
\* (cleanup of the first n completed jobs succeeds and, when n is not all of
\* them, the next one fails), build_report and the reporter's finish.
Finish ==
    /\ pc = "draining"
    /\ active = <<>>
    /\ \E n \in (IF clean_build THEN 0..Len(completed) ELSE {Len(completed)}) :
          /\ cleaned' = cleaned \cup do_cleanup(n)
          /\ IF n < Len(completed) \/ ~build_report.ok
             THEN /\ pc' = "error"
                  /\ UNCHANGED runnerReport
             ELSE /\ pc' = "done"
                  /\ runnerReport' = build_report.report
    /\ UNCHANGED <<paths, clean_build, abort, jobs, active, completed, procs,
                   killed, launched>>
    /\ UNCHANGED parserVars

\* ------------------------------------------------------- outparse run
\* A LogParser over some log, before parse or parse_log is called on it.
ParserInit ==
    /\ pc = "start"
    /\ paths = <<>>
    /\ clean_build = FALSE
    /\ abort = FALSE
    /\ jobs = <<>>
    /\ active = <<>>
    /\ completed = <<>>
    /\ procs = <<>>
    /\ killed = {}
    /\ cleaned = {}
    /\ runnerReport = None
    /\ launched = <<>>
    /\ log \in Logs
    /\ parser = LogParser_new(ContextLines)
    /\ parser_pc = "parse"
    /\ parsed = None

\* One iteration of the loop of LogParser::parse; the loop has no exit, and
\* at the end of the input it goes on reading empty lines.
ParseIteration ==
    /\ parser_pc = "parse"
    /\ \E overflow_checks \in BOOLEAN :
          LET read == next_line(log, parser.reader)
              p == [parser EXCEPT !.reader = IF @ < Len(log) THEN @ + 1 ELSE @]
              r == parse_iteration(p, read[1], overflow_checks)
          IN  IF read = None
              THEN parser' = p /\ UNCHANGED parser_pc
              ELSE /\ parser' = r.parser
                   /\ parser_pc' = IF r.panic THEN "panicked" ELSE parser_pc
    /\ UNCHANGED <<log, parsed>>
    /\ UNCHANGED runnerVars

\* parse_log on the log: it builds the report and the parser and returns
\* the report; LogParser::parse is not called.
ParseLog ==
    /\ parsed = None
    /\ parsed' = Some(LogParser_new(ContextLines).report)
    /\ UNCHANGED <<log, parser, parser_pc>>
    /\ UNCHANGED runnerVars

ParserNext ==
    \/ ParseIteration
    \/ ParseLog

ParserSpec == ParserInit /\ [][ParserNext]_vars

Next ==
    \/ SetHandler
    \/ Signal
    \/ Submit
    \/ \E j \in JobIds : ProcExit(j)
    \/ DrainStep
    \/ Finish

Spec == Init /\ [][Next]_vars

\* The loop of process_submissions keeps running, run keeps submitting, and
\* every spawned process eventually exits.
FairSpec ==
    /\ Spec
    /\ WF_vars(SetHandler)
    /\ WF_vars(Submit)
    /\ WF_vars(DrainStep)
    /\ WF_vars(Finish)
    /\ \A j \in 1..MaxJobs : WF_vars(j \in JobIds /\ ProcExit(j))

\* Runner::run on at most one path: the life of a single job.
OneJobInit == Init /\ Len(paths) <= 1

OneJobSpec == OneJobInit /\ [][Next]_vars

\* ================================================================ claims

HasReport(j) == jobs[j].report # None
ReportOf(j) == jobs[j].report[1]

\* C1: with max concurrency N, at most N jobs are Active at the same time.
ActiveJobs == {j \in JobIds : jobs[j].status = "Active"}
C1_AtMostNActive == Cardinality(ActiveJobs) <= max_concurrency

\* In process_submissions the job is pushed onto completed exactly when its
\* poll returned true.
PollReturnedTrue(j) ==
    /\ Len(completed') = Len(completed) + 1
    /\ completed'[Len(completed')] = j

BecameTerminal(j) ==
    jobs[j].status \notin Terminal /\ jobs'[j].status \in Terminal

\* C2: a poll returns true if and only if the job's status became Success
\* or Failed during that call.
C2_PollTrueIffBecameTerminal ==
    [][\A j \in JobIds : PollReturnedTrue(j) <=> BecameTerminal(j)]_vars

\* C3: a job whose finished run left a report with errors or exited
\* unsuccessfully is Failed and has not been spawned again, on the first run
\* and on the rebuild run alike; a job in Success has a latest run that
\* exited successfully and a stored report without errors.
C3_FailedOnErrorsOrBadExit ==
    \A j \in JobIds :
        /\ (HasReport(j) /\ (ReportOf(j).errors > 0 \/ ~procs[j].ok))
              => (jobs[j].status = "Failed" /\ procs[j].state = "reaped")
        /\ jobs[j].status = "Success"
              => (/\ HasReport(j)
                  /\ ReportOf(j).errors = 0
                  /\ procs[j].ok
                  /\ procs[j].state = "reaped")

C3_Witness ==
    \E j \in JobIds :
        /\ jobs[j].status = "Failed"
        /\ jobs[j].run_count = 2
        /\ HasReport(j) /\ ReportOf(j).errors > 0 /\ procs[j].ok
        /\ procs[j].state = "reaped"

\* The step in which the first run of job j is found finished and its
\* output parsed: the job's report is set for the first time.
FirstRunChecked(j) == jobs[j].report = None /\ jobs'[j].report # None

\* C4: a job whose first run exits successfully with a report of zero
\* errors and zero unresolved references becomes Success on that poll with
\* run_count 1, and stays so.
C4_CleanFirstRunSucceedsOnce ==
    [][\A j \in JobIds :
          /\ (/\ FirstRunChecked(j)
              /\ procs'[j].ok
              /\ jobs'[j].report[1].errors = 0
              /\ jobs'[j].report[1].missing_references = 0)
                => (jobs'[j].status = "Success" /\ jobs'[j].run_count = 1)
          /\ (jobs[j].status = "Success" /\ jobs[j].run_count = 1)
                => jobs'[j] = jobs[j]]_vars

C4_Witness ==
    \E j \in JobIds :
        /\ jobs[j].status = "Success"
        /\ jobs[j].run_count = 1
        /\ ReportOf(j) = BuildReport_new
        /\ j \in Range(completed)

\* The step in which the second run of job j is found finished.
SecondRunChecked(j) ==
    /\ jobs[j].run_count = 2
    /\ procs[j].state = "exited"
    /\ procs'[j].state # "exited"

C6_AbortKillsLiveAndSpawnsNothing ==
    [][/\ (pc = "draining" /\ pc' = "exited")
             => \A j \in JobIds : procs[j].state = "running" => j \in killed'
       /\ pc = "exited"
             => (pc' = "exited" /\ jobs' = jobs /\ launched' = launched)]_vars

C6_Witness ==
    /\ pc = "exited"
    /\ \E j \in JobIds : j \in killed /\ procs[j].state = "running"
    /\ \E j \in JobIds : jobs[j].status = "Pending"

\* C7: a run that ends after the abort flag was seen has produced a
\* RunnerReport, of exactly the jobs then in completed.
C7_CancelledRunReports ==
    pc = "exited"
       => (runnerReport # None /\ runnerReport[1].num_files = Len(completed))

AllCompletedOnce ==
    /\ active = <<>>
    /\ Len(completed) = Len(jobs)
    /\ Range(completed) = JobIds

\* C8: without cancellation, when every spawned process eventually exits,
\* the drain loop terminates with active empty and every submitted job in
\* completed exactly once: as long as the loop runs uncancelled, an
\* iteration, the end of the loop or the exit of a running process still
\* changes the state, and a run that is done has every job in completed once.
C8_DrainTerminates ==
    /\ (pc = "draining" /\ ~abort)
          => ENABLED <<DrainStep \/ Finish \/ \E j \in JobIds : ProcExit(j)>>_vars
    /\ pc = "done" => AllCompletedOnce

\* C9: jobs are first spawned in the order their paths were submitted.
C9_LaunchOrderIsSubmissionOrder ==
    \A i \in DOMAIN launched : launched[i] = i

C9_Witness ==
    /\ Len(launched) >= 2
    /\ jobs[1].run_count = 2
    /\ jobs[2].status = "Active"

\* A job that is Failed because its spawn failed or because try_wait failed.
FailedByError(j) ==
    /\ j \in JobIds
    /\ jobs[j].status = "Failed"
    /\ (jobs[j].run_count = 0 \/ procs[j].state # "reaped")

\* C10: a job that is Failed because it could not be spawned or its status
\* check failed does not abort the Runner, is moved into completed by the
\* drain loop, which keeps running, and is counted as a failure by the final
\* RunnerReport: the Runner never panics; while such a job is not yet in
\* completed and the run is not cancelled, an iteration of the loop or the
\* exit of a running process still changes the state; and a run that is done
\* has the job in completed and a failure count of at least one.
C10_FailedJobIsCompletedAndCounted ==
    /\ pc # "panicked"
    /\ \A j \in JobIds :
          (FailedByError(j) /\ pc = "draining" /\ ~abort)
             => \/ j \in Range(completed)
                \/ ENABLED <<DrainStep \/ \E k \in JobIds : ProcExit(k)>>_vars
    /\ \A j \in JobIds :
          (FailedByError(j) /\ pc = "done")
             => (j \in Range(completed) /\ runnerReport[1].fail >= 1)

\* C10 as a liveness property under FairSpec: unless the run is cancelled,
\* such a job reaches completed and the run ends with a RunnerReport counting
\* it (or with the error of a failed cleanup).
C10_FailedJobEventuallyCounted ==
    \A j \in 1..MaxJobs :
        FailedByError(j)
           ~> (\/ abort
               \/ pc = "error"
               \/ (/\ pc = "done"
                   /\ j \in Range(completed)
                   /\ runnerReport[1].fail >= 1))

\* ------------------------------------------------------ parser claims
CountKind(report, kind) ==
    Cardinality({i \in DOMAIN report.messages : report.messages[i].kind = kind})

Counted(report) ==
    /\ report.errors = CountKind(report, "Error")
    /\ report.warnings = CountKind(report, "Warning")
    /\ report.badboxes = CountKind(report, "Badbox")
    /\ report.info = CountKind(report, "Info")

\* C11: whatever lines the parser has processed, each counter of the
\* BuildReport (errors, warnings, badboxes, info) equals the number of
\* messages of that kind in its message list; so it is for the report
\* parse_log returns.
C11_CountersMatchMessages ==
    /\ Counted(parser.report)
    /\ parsed # None => Counted(parsed[1])

\* The parser has processed a log with an error and a warning in it.
C11_Witness ==
    /\ parser.reader = Len(log)
    /\ parser.report.errors >= 1
    /\ parser.report.warnings >= 1

\* The kind of diagnostic a line is recognized as, "" when it is none.
KindOf(line) ==
    IF INFO(line) # None THEN "Info"
    ELSE IF BADBOX(line) # None THEN "Badbox"
    ELSE IF WARNING(line) # None THEN "Warning"
    ELSE IF ERROR(line) # None THEN "Error"
    ELSE ""

Counter(report, kind) ==
    CASE kind = "Error" -> report.errors
      [] kind = "Warning" -> report.warnings
      [] kind = "Badbox" -> report.badboxes
      [] kind = "Info" -> report.info

Kinds == {"Error", "Warning", "Badbox", "Info"}

\* The parser has read exactly the first line of the log into the empty
\* report it started with.
FirstLineParsed == Len(log) >= 1 /\ parser.reader = 1

\* The report holds one message, of the given kind, and the counters say so.
OneMessage(report, kind) ==
    /\ \A k \in Kinds : Counter(report, k) = IF k = kind THEN 1 ELSE 0
    /\ Len(report.messages) = 1
    /\ report.messages[1].kind = kind

\* C12: parsing one recognized single-line diagnostic (an Info, Badbox,
\* Warning or Error line in any of its shapes) from an empty report
\* increments exactly the counter of its kind by one, leaves the other three
\* at zero and appends exactly one message, of that kind.
C12_OneLineOneCounter ==
    FirstLineParsed /\ KindOf(log[1]) # "" =>
        parser_pc # "panicked" /\ OneMessage(parser.report, KindOf(log[1]))

\* The amount process_badbox reads from a Badbox line: the size after Over,
\* the badness after Under.
BadboxAmount(line) ==
    IF BADBOX(line)[1].box_type = "Over"
    THEN BADBOX(line)[1].g4
    ELSE BADBOX(line)[1].g3

\* C12 holds of every line of the other three kinds and of the Badbox lines
\* that carry the amount process_badbox reads.
C12_ExceptMismatchedBadbox ==
    (/\ FirstLineParsed
     /\ KindOf(log[1]) # ""
     /\ KindOf(log[1]) = "Badbox" => BadboxAmount(log[1]) # None)
    => parser_pc # "panicked" /\ OneMessage(parser.report, KindOf(log[1]))

\* The line the next iteration of the parser's loop reads.
NextLine == log[parser.reader + 1]

\* The most recently produced message.
LastMessage == parser.report.messages[Len(parser.report.messages)]

\* The parser is about to read a line that begins with "(<component>) ",
\* the component name of the most recently produced message.
AtContinuationLine ==
    /\ parser_pc = "parse"
    /\ parser.reader < Len(log)
    /\ NextLine # InvalidLine
    /\ parser.report.messages # <<>>
    /\ get_component_name(LastMessage) # None
    /\ starts_with(NextLine, get_component_name(LastMessage)[1])

\* C13: reading a line that begins with "(<component>) ", the component
\* name of the most recently produced message, increments no counter and
\* appends no message, and appends the rest of the line to the message
\* detail of that message.
C13_ContinuationExtendsLastMessage ==
    [][AtContinuationLine /\ parser'.reader = parser.reader + 1 =>
        /\ \A k \in Kinds :
              Counter(parser'.report, k) = Counter(parser.report, k)
        /\ Len(parser'.report.messages) = Len(parser.report.messages)
        /\ parser'.report.messages[Len(parser.report.messages)].details["message"]
              = LastMessage.details["message"]
                   \o trim_start_matches(NextLine,
                                         get_component_name(LastMessage)[1])
      ]_vars

\* The parser's state makes it take the next line as a continuation of
\* last_message or as a context line.
TakenAsContinuationOrContext ==
    \/ /\ parser.last_message # None
       /\ get_component_name(parser.report.messages[parser.last_message[1]]) # None
       /\ starts_with(NextLine,
             get_component_name(parser.report.messages[parser.last_message[1]])[1])
    \/ parser.collect_remaining # None

\* C14: reading a line that matches none of the four patterns, and that is
\* not taken as a continuation or context line, leaves the BuildReport as it
\* was, counters and messages, and raises no error.
C14_UnmatchedLineChangesNothing ==
    [][(/\ parser_pc = "parse"
        /\ parser.reader < Len(log)
        /\ NextLine # InvalidLine
        /\ KindOf(NextLine) = ""
        /\ ~TakenAsContinuationOrContext
        /\ parser'.reader = parser.reader + 1)
       => parser'.report = parser.report /\ parser_pc' = "parse"]_vars

\* A line that matches no pattern has been read after a message was
\* produced.
C14_Witness ==
    /\ parser.reader = 2
    /\ log[2] # InvalidLine
    /\ KindOf(log[2]) = ""
    /\ Len(log[2]) > 0
    /\ parser.report.messages # <<>>

\* ------------------------------------------------- runner claims, cont.
\* C15: the RunnerReport has an entry in build_reports, keyed by the job,
\* for every completed job that has a BuildReport, and its success and fail
\* counts are the numbers of completed jobs in Success and in Failed.
C15_ReportHoldsBuildReportsAndCounts ==
    runnerReport # None =>
        /\ \A i \in DOMAIN completed :
              HasReport(completed[i]) =>
                 /\ completed[i] \in DOMAIN runnerReport[1].build_reports
                 /\ runnerReport[1].build_reports[completed[i]]
                       = ReportOf(completed[i])
        /\ runnerReport[1].success = CountStatus(completed, "Success")
        /\ runnerReport[1].fail = CountStatus(completed, "Failed")

\* The counts alone: these the RunnerReport gets right.
C15_CountsOnly ==
    runnerReport # None =>
        /\ runnerReport[1].success = CountStatus(completed, "Success")
        /\ runnerReport[1].fail = CountStatus(completed, "Failed")
        /\ runnerReport[1].num_files = Len(completed)

\* The next path Runner::run submits does not exist.
AtMissingPath == pc = "submitting" /\ ~paths[Len(jobs) + 1]

\* C16: submitting a path that does not exist enqueues nothing and aborts
\* that submission only: the jobs submitted before it stay queued and the
\* run goes on to the other submitted paths.
C16_MissingPathAbortsThatSubmissionOnly ==
    [][AtMissingPath =>
          /\ jobs' = jobs
          /\ active' = active
          /\ pc' \in {"submitting", "draining"}]_vars

\* What the code does keep: nothing is enqueued and the jobs submitted
\* before stay queued.
C16_NothingEnqueued ==
    [][AtMissingPath => jobs' = jobs /\ active' = active]_vars

\* C17: Job::cleanup is called only when the clean-build option is set, and
\* only on jobs that have reached a terminal status.
C17_CleanupOnlyWhenSetAndTerminal ==
    \A j \in cleaned : clean_build /\ jobs[j].status \in Terminal

\* Job::cleanup has been called on a job.
C17_Witness == cleaned # {}

\* ------------------------------------------------ parser claims, cont.
\* The per-line algorithm (an iteration of the loop of LogParser::parse)
\* applied to the lines in order, from the parser p on: the report it ends
\* with.  A line that cannot be read is skipped.
RECURSIVE ParseLines(_, _)
ParseLines(p, lines) ==
    IF lines = <<>> THEN p.report
    ELSE IF Head(lines) = InvalidLine THEN ParseLines(p, Tail(lines))
    ELSE LET r == parse_iteration(p, Head(lines), TRUE)
         IN  IF r.panic THEN r.parser.report
             ELSE ParseLines(r.parser, Tail(lines))

\* C18: the BuildReport parse_log returns for a log is the result of
\* applying the per-line algorithm to every line of the log, in order.
C18_ParseLogIsPerLineResult ==
    parsed # None => parsed[1] = ParseLines(LogParser_new(ContextLines), log)

\* ------------------------------------------------- runner claims, cont.
\* The changes of JobStatus the claim allows; Active to Active is the
\* re-spawn of a rebuild, which leaves the status as it is.
StatusEdges ==
    {<<"Pending", "Active">>, <<"Pending", "Failed">>, <<"Active", "Active">>,
     <<"Active", "Success">>, <<"Active", "Failed">>}

\* C19: a job's status changes only from Pending to Active or Failed and
\* from Active to Active (the re-spawn of a rebuild), Success or Failed; no
\* job is ever NeedsRebuild, none returns to Pending, and a new job starts
\* Pending.
C19_StatusFollowsEdges ==
    [][\A j \in DOMAIN jobs' :
          /\ jobs'[j].status # "NeedsRebuild"
          /\ IF j \in DOMAIN jobs
             THEN \/ jobs'[j] = jobs[j]
                  \/ <<jobs[j].status, jobs'[j].status>> \in StatusEdges
             ELSE jobs'[j].status = "Pending"]_vars

\* A job went from Pending to Active, was re-spawned for a rebuild and
\* ended in Success, while another went from Pending to Failed.
C19_Witness ==
    /\ \E j \in JobIds : jobs[j].run_count = 2 /\ jobs[j].status = "Success"
    /\ \E j \in JobIds : jobs[j].run_count = 0 /\ jobs[j].status = "Failed"

\* Every answer the environment can give to one call of poll.
AllPollInputs ==
    {PollInput(t, e, r, ok) :
        t \in TryWait, e \in BOOLEAN, r \in JobReports, ok \in BOOLEAN}

\* C20: poll on a job that is Success or Failed returns false and changes
\* nothing: status, run counter, report and child handle stay as they were
\* and no process is spawned, whatever the environment would answer and so
\* however often it is called.
C20_PollOnTerminalIsNoOp ==
    \A j \in JobIds :
        jobs[j].status \in Terminal =>
            \A in \in AllPollInputs :
                poll(jobs[j], in.try_wait, in.exit_code_success, in.report,
                     in.spawn_ok)
                  = Outcome(jobs[j], FALSE, FALSE, FALSE, "none")

\* A job that failed while it held a child (try_wait returned an error) is
\* back in the queue and polled again by the loop.
C20_Witness ==
    /\ pc = "draining"
    /\ active # <<>>
    /\ jobs[Head(active)].status = "Failed"
    /\ jobs[Head(active)].child = "Some"

AtLineAfterMessage ==
    /\ parser_pc = "parse"
    /\ parser.reader >= 1
    /\ parser.reader < Len(log)
    /\ log[parser.reader] # InvalidLine
    /\ KindOf(log[parser.reader]) # ""
    /\ parser.report.messages # <<>>
    /\ NextLine # InvalidLine
    /\ ~AtContinuationLine

\* No message holds more context lines than the budget.
ContextWithinBudget ==
    \A i \in DOMAIN parser.report.messages :
        Len(parser.report.messages[i].context_lines) <= ContextLines

\* C22: the raw line that immediately follows a message (and is not a
\* continuation line) is appended verbatim to that message's context_lines,
\* the budget of 2 allowing; and no message ever has more than 2 context
\* lines.
C22_ContextLinesCollected ==
    [][/\ AtLineAfterMessage /\ parser'.reader = parser.reader + 1 =>
             parser'.report.messages[Len(parser.report.messages)].context_lines
                = Append(LastMessage.context_lines, NextLine)
       /\ ContextWithinBudget /\ ContextWithinBudget']_vars

\* C23: a line the parser takes as a continuation line, or as a context line
\* of the message produced just before it, is consumed by that stage and not
\* classified, even when it matches a diagnostic pattern: no counter changes
\* and no message is appended; and a continuation line leaves the context
\* budget as it was.
C23_ConsumedLineIsNotClassified ==
    [][/\ (AtContinuationLine \/ AtLineAfterMessage)
          /\ parser'.reader = parser.reader + 1 =>
             /\ \A k \in Kinds :
                   Counter(parser'.report, k) = Counter(parser.report, k)
             /\ Len(parser'.report.messages) = Len(parser.report.messages)
       /\ AtContinuationLine /\ parser'.reader = parser.reader + 1 =>
             parser'.collect_remaining = parser.collect_remaining]_vars

\* The part about continuation lines alone: these the code never classifies.
C23_ContinuationLineIsNotClassified ==
    [][AtContinuationLine /\ parser'.reader = parser.reader + 1 =>
          /\ \A k \in Kinds :
                Counter(parser'.report, k) = Counter(parser.report, k)
          /\ Len(parser'.report.messages) = Len(parser.report.messages)
          /\ parser'.collect_remaining = parser.collect_remaining]_vars

\* C24: no Badbox message has a component, package or class detail, so it
\* has no component name, and no line that follows a Badbox is taken as its
\* continuation: the details and the text of a Badbox message never change.
C24_BadboxHasNoComponentOrContinuation ==
    [][\A i \in DOMAIN parser'.report.messages :
          parser'.report.messages[i].kind = "Badbox" =>
             /\ DOMAIN parser'.report.messages[i].details
                   \cap {"component", "package", "class"} = {}
             /\ get_component_name(parser'.report.messages[i]) = None
             /\ i \in DOMAIN parser.report.messages =>
                   /\ parser'.report.messages[i].details
                         = parser.report.messages[i].details
                   /\ parser'.report.messages[i].full
                         = parser.report.messages[i].full]_vars

\* A Badbox message was produced and the line after it, which begins with a
\* parenthesized name, has been read.
C24_Witness ==
    /\ parser.reader = 2
    /\ parser.report.messages # <<>>
    /\ parser.report.messages[1].kind = "Badbox"
    /\ At(log[2], 1) = "("

\* ------------------------------------------------- runner claims, cont.
\* C25: a job holds a child process handle if and only if its status is
\* Active: a Pending job has none and a Success or Failed job has released
\* it.
C25_ChildHeldIffActive ==
    \A j \in JobIds : jobs[j].child = "Some" <=> jobs[j].status = "Active"

\* What the code does keep: a Pending job has no child and an Active job
\* has one.
C25_PendingNoneActiveSome ==
    \A j \in JobIds :
        /\ jobs[j].status = "Pending" => jobs[j].child = "None"
        /\ jobs[j].status = "Active" => jobs[j].child = "Some"

\* The calls the reporting sink has received.  report_completed is called
\* with a job exactly when that job is pushed onto completed (the two
\* statements are adjacent in process_submissions), and finish exactly when
\* process_submissions returns Ok with the report.
report_completed_events == completed

finish_events == IF pc = "done" THEN 1 ELSE 0

CompletionEventsOf(j) ==
    Cardinality({i \in DOMAIN report_completed_events :
                    report_completed_events[i] = j})

\* C26: in a run that is not cancelled the reporting sink receives one
\* completion event for each submitted job, issued when the job becomes
\* terminal (so a job has its event exactly while it is terminal, and never
\* more than one), and one final-summary event, which comes after the
\* completion events of all submitted jobs.
C26_OneCompletionEventPerJobThenSummary ==
    ~abort =>
        /\ \A j \in JobIds :
              CompletionEventsOf(j) = IF jobs[j].status \in Terminal THEN 1 ELSE 0
        /\ finish_events = 1 =>
              /\ Len(jobs) = Len(paths)
              /\ \A j \in JobIds : CompletionEventsOf(j) = 1

\* What the code does keep: no job has more than one completion event, only
\* terminal jobs have one, and the final summary comes after the completion
\* event of every submitted job.
C26_EventsAtMostOnce ==
    /\ \A j \in JobIds :
          /\ CompletionEventsOf(j) <= 1
          /\ CompletionEventsOf(j) = 1 => jobs[j].status \in Terminal
    /\ finish_events = 1 =>
          /\ Len(jobs) = Len(paths)
          /\ \A j \in JobIds : CompletionEventsOf(j) = 1

\* C27: every job in completed is Success or Failed (a job is moved there
\* only by a poll that returned true, which has made it terminal), so when
\* the loop has ended and build_report is called it does not return the
\* "Job was not completed." error.
C27_CompletedJobsAreTerminal ==
    /\ \A i \in DOMAIN completed : jobs[completed[i]].status \in Terminal
    /\ pc = "draining" /\ active = <<>> => build_report.ok

\* The loop has ended with a Success job and a Failed job in completed and
\* build_report has returned the report.
C27_Witness ==
    /\ pc = "done"
    /\ \E i \in DOMAIN completed : jobs[completed[i]].status = "Success"
    /\ \E i \in DOMAIN completed : jobs[completed[i]].status = "Failed"

\* ------------------------------------------------ parser claims, cont.
\* C28: LogParser::parse over a finite log terminates: while its loop is
\* running an iteration still changes the state (it reads a line of the
\* log, or it stops), so that once the log is exhausted the loop does not
\* go on reading for ever.
C28_ParseTerminates ==
    parser_pc = "parse" => ENABLED <<ParseIteration>>_vars
====
